---------------------------- MODULE Spec2Model ----------------------------
(***************************************************************************)
(* Model of selfdrive/controls/lib/events.py: the Events container (the   *)
(* active event list, the static list, the per-event counters), the       *)
(* EVENTS catalog with its Alert objects, and the operations add, clear,  *)
(* contains, create_alerts, add_from_msg and to_msg.                      *)
(*                                                                         *)
(* Time is counted in units of 1/UnitsPerSecond second.  The catalog is a *)
(* slice of EVENTS: three entries of the source plus one event id that    *)
(* has no entry.                                                          *)
(***************************************************************************)
EXTENDS Integers, Sequences, FiniteSets, TLC

VARIABLES events, static_events, event_counters, EVENTS, last, nclears, active_ticks

vars == <<events, static_events, event_counters, EVENTS, last, nclears, active_ticks>>

(***************************************************************************)
(* Bounds of the model.                                                    *)
(***************************************************************************)
\* longest active list the model builds
MaxLen == 2
\* number of clear() calls (ticks) the model runs
MaxTicks == 2
\* time resolution: units per second
UnitsPerSecond == 4
\* the tick period DT_CTRL (imported from common.realtime) in time units
DT_CTRL == 2

(***************************************************************************)
(* class Priority(IntEnum)                                                 *)
(***************************************************************************)
LOWEST == 0
LOWER == 1
LOW == 2
MID == 3
HIGH == 4
HIGHEST == 5

(***************************************************************************)
(* class ET                                                                *)
(***************************************************************************)
ET == {"enable", "preEnable", "overrideLateral", "overrideLongitudinal",
       "noEntry", "warning", "userDisable", "softDisable",
       "immediateDisable", "permanent"}

(***************************************************************************)
(* EventName ordinals.  unknownEvent is an EventName with no EVENTS entry. *)
(***************************************************************************)
stockFcw == 1
preEnableStandstill == 2
steerTempUnavailable == 3
unknownEvent == 4

\* every EventName of the model
EventIds == {stockFcw, preEnableStandstill, steerTempUnavailable, unknownEvent}

\* the event ids the callers of Spec assert
AssertedIds == {preEnableStandstill, steerTempUnavailable, unknownEvent}

EVENT_NAME == (stockFcw :> "stockFcw") @@ (preEnableStandstill :> "preEnableStandstill")
              @@ (steerTempUnavailable :> "steerTempUnavailable") @@ (unknownEvent :> "unknownEvent")

(***************************************************************************)
(* class Alert and its subclasses: the fields the operations read or write.*)
(***************************************************************************)
Alert(priority, creation_delay) ==
  [kind |-> "Alert", priority |-> priority, creation_delay |-> creation_delay,
   alert_type |-> "", event_type |-> "None"]

NoEntryAlert == Alert(LOW, 0)

SoftDisableAlert == Alert(MID, 0)

ImmediateDisableAlert == Alert(HIGHEST, 0)

\* a plausible slip: the comparison is not strict
Alert__ge__(self, alert2) ==
  IF alert2.kind # "Alert" THEN FALSE ELSE self.priority >= alert2.priority

\* a plausible slip: equal priorities are ordered by another field
Alert__gt__tiebreak(self, alert2) ==
  IF alert2.kind # "Alert" THEN FALSE
  ELSE \/ self.priority > alert2.priority
       \/ self.priority = alert2.priority /\ self.creation_delay > alert2.creation_delay

\* Alert.__gt__: False for a non-Alert, else the priorities compared
Alert__gt__(self, alert2) ==
  IF alert2.kind # "Alert" THEN FALSE ELSE self.priority > alert2.priority

\* a catalog entry that is a callback (AlertCallbackType), named by its function
Callback(fn) == [kind |-> "callback", fn |-> fn]

\* what a raised exception looks like where an Alert was expected
Raise(exc) == [kind |-> "raise", exc |-> exc]

\* UserSoftDisableAlert(SoftDisableAlert): another first text line, the same priority
UserSoftDisableAlert == SoftDisableAlert

\* a plausible slip: the threshold itself counts as below
soft_disable_alert_le(soft_disable_time) ==
  IF soft_disable_time <= (UnitsPerSecond \div 2) \div DT_CTRL
  THEN ImmediateDisableAlert
  ELSE SoftDisableAlert

\* soft_disable_alert(text)'s func: int(0.5 / DT_CTRL) ticks is the threshold
soft_disable_alert(soft_disable_time) ==
  IF soft_disable_time < (UnitsPerSecond \div 2) \div DT_CTRL
  THEN ImmediateDisableAlert
  ELSE SoftDisableAlert

\* user_soft_disable_alert(text)'s func
user_soft_disable_alert(soft_disable_time) ==
  IF soft_disable_time < (UnitsPerSecond \div 2) \div DT_CTRL
  THEN ImmediateDisableAlert
  ELSE UserSoftDisableAlert

\* alert(*callback_args): the callbacks take six positional arguments
CallAlert(fn, callback_args) ==
  IF Len(callback_args) # 6 THEN Raise("TypeError")
  ELSE soft_disable_alert(callback_args[5])

(***************************************************************************)
(* The alert callbacks that read the context.  sm maps the name of a       *)
(* service to its latest message; sm[s] of a service sm does not hold      *)
(* raises KeyError.  A float is a number or math.nan.  The alert made      *)
(* carries the values formatted into its second text line.                 *)
(***************************************************************************)
Float(v) == [nan |-> FALSE, v |-> v]

NaN == [nan |-> TRUE, v |-> 0]

FloatSub(a, b) == IF a.nan \/ b.nan THEN NaN ELSE Float(a.v - b.v)

\* math.degrees, in whole degrees per radian
Degrees(a) == IF a.nan THEN NaN ELSE Float(a.v * 57)

NormalPermanentAlert == Alert(LOWER, 0)

WithText(alert, values) == alert @@ [alert_text_2 |-> values]

posenet_invalid_alert(CP, CS, sm, metric, soft_disable_time, frogpilot_toggles) ==
  IF "modelV2" \notin DOMAIN sm THEN Raise("KeyError")
  ELSE LET x == sm["modelV2"].velocity_x
           mdl == IF Len(x) # 0 THEN Float(x[1]) ELSE NaN
           err == FloatSub(Float(CS.vEgo), mdl)
       IN WithText(NoEntryAlert, <<err>>)

calibration_invalid_alert(CP, CS, sm, metric, soft_disable_time, frogpilot_toggles) ==
  IF "liveCalibration" \notin DOMAIN sm THEN Raise("KeyError")
  ELSE LET rpy == sm["liveCalibration"].rpyCalib
           yaw == Degrees(IF Len(rpy) = 3 THEN Float(rpy[3]) ELSE NaN)
           pitch == Degrees(IF Len(rpy) = 3 THEN Float(rpy[2]) ELSE NaN)
       IN WithText(NormalPermanentAlert, <<pitch, yaw>>)

low_memory_alert(CP, CS, sm, metric, soft_disable_time, frogpilot_toggles) ==
  IF "deviceState" \notin DOMAIN sm THEN Raise("KeyError")
  ELSE WithText(NormalPermanentAlert, <<Float(sm["deviceState"].memoryUsagePercent)>>)

modeld_lagging_alert(CP, CS, sm, metric, soft_disable_time, frogpilot_toggles) ==
  IF "modelV2" \notin DOMAIN sm THEN Raise("KeyError")
  ELSE WithText(NormalPermanentAlert, <<Float(sm["modelV2"].frameDropPerc)>>)

(***************************************************************************)
(* EVENTS at import time.                                                  *)
(***************************************************************************)
EmptyTypes == [et \in {} |-> NoEntryAlert]

EVENTS0 ==
  (stockFcw :> EmptyTypes)
  @@ (preEnableStandstill :> ("preEnable" :> Alert(LOWEST, 1 * UnitsPerSecond)))
  @@ (steerTempUnavailable :>
        (("softDisable" :> Callback("soft_disable_alert"))
         @@ ("noEntry" :> NoEntryAlert)))

(***************************************************************************)
(* bisect.insort (insort_right): binary search for the insertion point,    *)
(* then list.insert.                                                       *)
(***************************************************************************)
RECURSIVE bisect_right(_, _, _, _)
bisect_right(a, x, lo, hi) ==
  IF lo < hi
  THEN LET mid == (lo + hi) \div 2
       IN IF x < a[mid + 1]
          THEN bisect_right(a, x, lo, mid)
          ELSE bisect_right(a, x, mid + 1, hi)
  ELSE lo

\* a plausible slip: list.append in place of bisect.insort
InsortAppend(a, x) == Append(a, x)

\* a plausible slip: the new id goes to the head of the list
InsortFront(a, x) == <<x>> \o a

\* a plausible slip: the new id lands one place before its position
ListInsertBefore(a, i, x) ==
  LET k == IF i > 0 THEN i - 1 ELSE 0
  IN SubSeq(a, 1, k) \o <<x>> \o SubSeq(a, k + 1, Len(a))

ListInsert(a, i, x) == SubSeq(a, 1, i) \o <<x>> \o SubSeq(a, i + 1, Len(a))

insort(a, x) == ListInsert(a, bisect_right(a, x, 0, Len(a)), x)

\* k in list
In(k, a) == \E i \in DOMAIN a : a[i] = k

\* list.count(k)
Count(a, k) == Cardinality({i \in DOMAIN a : a[i] = k})

(***************************************************************************)
(* Events.__init__                                                         *)
(***************************************************************************)
Init ==
  /\ events = <<>>
  /\ static_events = <<>>
  /\ event_counters = [k \in DOMAIN EVENTS0 |-> 0]
  /\ EVENTS = EVENTS0
  /\ last = [op |-> "__init__"]
  /\ nclears = 0
  /\ active_ticks = [k \in DOMAIN EVENTS0 |-> 0]

(***************************************************************************)
(* Events.names and Events.__len__                                         *)
(***************************************************************************)
names ==
  /\ last' = [op |-> "names", ret |-> events]
  /\ UNCHANGED <<events, static_events, event_counters, EVENTS, nclears, active_ticks>>

__len__ ==
  /\ last' = [op |-> "__len__", ret |-> Len(events)]
  /\ UNCHANGED <<events, static_events, event_counters, EVENTS, nclears, active_ticks>>

(***************************************************************************)
(* Events.add                                                              *)
(***************************************************************************)
\* a plausible slip: the static list is assigned, not inserted into
AddStaticReplace(static, event_name) ==
  IF static THEN <<event_name>> ELSE static_events

\* a plausible slip: clear() installs the static list itself (no .copy()), so
\* after the first clear every add reaches the static list as well
AddStaticAliased(static, event_name) ==
  IF static \/ nclears > 0 THEN insort(static_events, event_name) ELSE static_events

\* a plausible slip: the static list is appended to, not inserted into in order
AddStaticAppend(static, event_name) ==
  IF static THEN Append(static_events, event_name) ELSE static_events

AddStatic(static, event_name) ==
  IF static THEN insort(static_events, event_name) ELSE static_events

\* a plausible slip: an id already in the list is not inserted again
AddEventsIfAbsent(event_name) ==
  IF In(event_name, events) THEN events ELSE insort(events, event_name)

AddEvents(event_name) == insort(events, event_name)

add(event_name, static) ==
  /\ Len(events) < MaxLen
  /\ static_events' = AddStatic(static, event_name)
  /\ events' = AddEvents(event_name)
  /\ last' = [op |-> "add", event_name |-> event_name, static |-> static]
  /\ UNCHANGED <<event_counters, EVENTS, nclears, active_ticks>>

(***************************************************************************)
(* Events.clear                                                            *)
(***************************************************************************)
\* a plausible slip: the counter follows the static list, not the active list
ClearCountersStaticOnly ==
  [k \in DOMAIN event_counters |->
     IF In(k, static_events) THEN event_counters[k] + 1 ELSE 0]

\* a plausible slip: a counter is never reset
ClearCountersNoReset ==
  [k \in DOMAIN event_counters |->
     IF In(k, events) THEN event_counters[k] + 1 ELSE event_counters[k]]

\* a plausible slip: the counter of an id that is not active decays by one
ClearCountersDecay ==
  [k \in DOMAIN event_counters |->
     IF In(k, events) THEN event_counters[k] + 1
     ELSE IF event_counters[k] > 0 THEN event_counters[k] - 1 ELSE 0]

\* a plausible slip: the new table is keyed by the active ids as well
ClearCountersActiveKeys ==
  [k \in DOMAIN event_counters \cup {events[i] : i \in DOMAIN events} |->
     IF In(k, events)
     THEN (IF k \in DOMAIN event_counters THEN event_counters[k] ELSE 0) + 1
     ELSE 0]

ClearCounters ==
  [k \in DOMAIN event_counters |->
     IF In(k, events) THEN event_counters[k] + 1 ELSE 0]

\* a plausible slip: the active list is left as it is
ClearEventsKept == events

\* a plausible slip: the active list is emptied
ClearEventsEmptied == <<>>

ClearEvents == static_events

\* clear(), as long as fewer than max_ticks ticks have been completed
clear_until(max_ticks) ==
  /\ nclears < max_ticks
  /\ event_counters' = ClearCounters
  /\ events' = ClearEvents
  /\ last' = [op |-> "clear"]
  /\ nclears' = nclears + 1
  \* history: consecutive completed ticks in which the id was active
  /\ active_ticks' = [k \in DOMAIN active_ticks |->
                        IF In(k, events) THEN active_ticks[k] + 1 ELSE 0]
  /\ UNCHANGED <<static_events, EVENTS>>

clear == clear_until(MaxTicks)

(***************************************************************************)
(* Events.contains                                                         *)
(***************************************************************************)
\* EVENTS.get(e, {})
EventsGet(e) == IF e \in DOMAIN EVENTS THEN EVENTS[e] ELSE EmptyTypes

\* a plausible slip: an entry counts only once its creation delay has passed
ContainsResultGated(event_type) ==
  \E i \in DOMAIN events :
    /\ event_type \in DOMAIN EventsGet(events[i])
    /\ EventsGet(events[i])[event_type].kind = "Alert"
         => DT_CTRL * (event_counters[events[i]] + 1)
              >= EventsGet(events[i])[event_type].creation_delay

ContainsResult(event_type) ==
  \E i \in DOMAIN events : event_type \in DOMAIN EventsGet(events[i])

contains(event_type) ==
  /\ last' = [op |-> "contains", event_type |-> event_type,
              ret |-> ContainsResult(event_type)]
  /\ UNCHANGED <<events, static_events, event_counters, EVENTS, nclears, active_ticks>>

(***************************************************************************)
(* Events.create_alerts.  The loops run over a scan state st:              *)
(*   st.EVENTS  the catalog, whose Alert objects the loop stamps           *)
(*   st.ret     the list built so far                                      *)
(*   st.exc     the exception that ended the call, or "None"               *)
(***************************************************************************)
\* a plausible slip: a strict comparison
DelayPassedStrict(e, alert) == DT_CTRL * (event_counters[e] + 1) > alert.creation_delay

\* a plausible slip: the current tick is not counted
DelayPassedNoCurrentTick(e, alert) == DT_CTRL * event_counters[e] >= alert.creation_delay

\* line 90: the creation-delay gate
DelayPassed(e, alert) == DT_CTRL * (event_counters[e] + 1) >= alert.creation_delay

\* a plausible slip: the stamp names the event only
StampEventOnly(alert, e, et) ==
  [alert EXCEPT !.alert_type = EVENT_NAME[e], !.event_type = et]

\* lines 91-92: the provenance stamp
Stamp(alert, e, et) ==
  [alert EXCEPT !.alert_type = EVENT_NAME[e] \o "/" \o et, !.event_type = et]

\* a plausible slip: a pair that already gave an alert in this call is skipped
ScanTypeOnce(st, e, et, callback_args) ==
  IF et \notin DOMAIN st.EVENTS[e] THEN st
  ELSE IF \E j \in DOMAIN st.ret : st.ret[j].alert_type = EVENT_NAME[e] \o "/" \o et
       THEN st
       ELSE LET entry == st.EVENTS[e][et]
                alert == IF entry.kind = "Alert" THEN entry
                         ELSE CallAlert(entry.fn, callback_args)
            IN IF alert.kind = "raise" THEN [st EXCEPT !.exc = alert.exc]
               ELSE IF DelayPassed(e, alert)
                    THEN [st EXCEPT
                            !.EVENTS = IF entry.kind = "Alert"
                                       THEN [@ EXCEPT ![e][et] = Stamp(alert, e, et)]
                                       ELSE @,
                            !.ret = Append(@, Stamp(alert, e, et))]
                    ELSE st

\* lines 85-93: the body of the inner loop for one event type
ScanType(st, e, et, callback_args) ==
  IF et \notin DOMAIN st.EVENTS[e] THEN st
  ELSE LET entry == st.EVENTS[e][et]
           alert == IF entry.kind = "Alert" THEN entry
                    ELSE CallAlert(entry.fn, callback_args)
       IN IF alert.kind = "raise" THEN [st EXCEPT !.exc = alert.exc]
          ELSE IF DelayPassed(e, alert)
               THEN [st EXCEPT
                       !.EVENTS = IF entry.kind = "Alert"
                                  THEN [@ EXCEPT ![e][et] = Stamp(alert, e, et)]
                                  ELSE @,
                       !.ret = Append(@, Stamp(alert, e, et))]
               ELSE st

\* lines 84-93: for et in event_types
RECURSIVE ScanTypes(_, _, _, _, _)
ScanTypes(st, e, event_types, j, callback_args) ==
  IF j > Len(event_types) \/ st.exc # "None" THEN st
  ELSE ScanTypes(ScanType(st, e, event_types[j], callback_args),
                 e, event_types, j + 1, callback_args)

\* lines 82-93: for e in self.events; EVENTS[e] raises KeyError for an id with no entry
RECURSIVE ScanEvents(_, _, _, _)
ScanEvents(st, i, event_types, callback_args) ==
  IF i > Len(events) \/ st.exc # "None" THEN st
  ELSE IF events[i] \notin DOMAIN st.EVENTS
       THEN [st EXCEPT !.exc = "KeyError"]
       ELSE ScanEvents(ScanTypes(st, events[i], event_types, 1, callback_args),
                       i + 1, event_types, callback_args)

CreateAlerts(event_types, callback_args) ==
  ScanEvents([EVENTS |-> EVENTS, ret |-> <<>>, exc |-> "None"], 1,
             event_types, callback_args)

create_alerts(event_types, callback_args) ==
  LET st == CreateAlerts(event_types, callback_args)
  IN /\ EVENTS' = st.EVENTS
     /\ last' = [op |-> "create_alerts", event_types |-> event_types,
                 callback_args |-> callback_args, exc |-> st.exc,
                 ret |-> IF st.exc = "None" THEN st.ret ELSE <<>>]
     /\ UNCHANGED <<events, static_events, event_counters, nclears, active_ticks>>

(***************************************************************************)
(* Events.add_from_msg and Events.to_msg.  A car.CarEvent is a record of   *)
(* its name and one boolean per event type.                                *)
(***************************************************************************)
CarEvent(name, types) == [name |-> name, flags |-> [et \in ET |-> et \in types]]

\* a plausible slip: a record is taken only if one of its flags is set
RECURSIVE InsortFlagged(_, _, _)
InsortFlagged(a, msg, i) ==
  IF i > Len(msg) THEN a
  ELSE InsortFlagged(IF \E et \in ET : msg[i].flags[et] THEN insort(a, msg[i].name) ELSE a,
                     msg, i + 1)

RECURSIVE InsortAll(_, _, _)
InsortAll(a, msg, i) ==
  IF i > Len(msg) THEN a
  ELSE InsortAll(insort(a, msg[i].name), msg, i + 1)

\* a plausible slip: the ids received are made static as well
add_from_msg_static(msg) ==
  /\ Len(events) + Len(msg) <= MaxLen
  /\ events' = InsortAll(events, msg, 1)
  /\ static_events' = InsortAll(static_events, msg, 1)
  /\ last' = [op |-> "add_from_msg"]
  /\ UNCHANGED <<event_counters, EVENTS, nclears, active_ticks>>

add_from_msg(msg) ==
  /\ Len(events) + Len(msg) <= MaxLen
  /\ events' = InsortAll(events, msg, 1)
  /\ last' = [op |-> "add_from_msg"]
  /\ UNCHANGED <<static_events, event_counters, EVENTS, nclears, active_ticks>>

\* a plausible slip: the flags of a record are never set
ToMsgNoFlags == [i \in DOMAIN events |-> CarEvent(events[i], {})]

ToMsg == [i \in DOMAIN events |-> CarEvent(events[i], DOMAIN EventsGet(events[i]))]

\* a plausible slip: the list is emptied once it has been sent
to_msg_draining ==
  /\ last' = [op |-> "to_msg", ret |-> ToMsg]
  /\ events' = <<>>
  /\ UNCHANGED <<static_events, event_counters, EVENTS, nclears, active_ticks>>

to_msg ==
  /\ last' = [op |-> "to_msg", ret |-> ToMsg]
  /\ UNCHANGED <<events, static_events, event_counters, EVENTS, nclears, active_ticks>>

(***************************************************************************)
(* Inputs of the calls.                                                    *)
(***************************************************************************)
\* event_types lists passed to create_alerts
TypeLists == {<<"noEntry", "preEnable">>, <<"noEntry", "softDisable">>}

\* callback_args: the default [] or [CP, CS, sm, metric, soft_disable_time, toggles]
CallbackArgs ==
  {<<>>} \cup {<<"CP", "CS", "sm", TRUE, t, "toggles">> : t \in 0..1}

\* event types asked of contains
ContainsTypes == {"noEntry", "warning"}

\* decoded messages: one or two events, their flags as sent or all cleared
WireEvents == {CarEvent(e, ts) : e \in AssertedIds, ts \in {{}, {"warning"}}}

WireMsgs == {<<m>> : m \in WireEvents}
            \cup {<<CarEvent(a, {}), CarEvent(b, {})>> : a, b \in AssertedIds}

Next ==
  \/ \E e \in AssertedIds, s \in BOOLEAN : add(e, s)
  \/ clear
  \/ \E et \in ContainsTypes : contains(et)
  \/ \E ets \in TypeLists, args \in CallbackArgs : create_alerts(ets, args)
  \/ \E msg \in WireMsgs : add_from_msg(msg)
  \/ to_msg
  \/ names
  \/ __len__

Spec == Init /\ [][Next]_vars

(***************************************************************************)
(* The arbiter applied to a list of resolved alerts.  pickHighest scans    *)
(* the list from its head and keeps the alert in hand unless the next one  *)
(* compares greater (Alert.__gt__).  Its inputs are lists as create_alerts *)
(* returns them: stamped alerts, their events in ascending order.          *)
(***************************************************************************)
\* longest alert list handed to the arbiter
MaxAlerts == 3

\* what pickHighest returns for an empty list
NoAlert == [kind |-> "None"]

RECURSIVE PickFrom(_, _, _)
PickFrom(alerts, i, best) ==
  IF i > Len(alerts) THEN best
  ELSE PickFrom(alerts, i + 1, IF Alert__gt__(alerts[i], best) THEN alerts[i] ELSE best)

PickHighest(alerts) ==
  IF alerts = <<>> THEN NoAlert ELSE PickFrom(alerts, 2, alerts[1])

\* the event a stamped alert came from
OriginId(alert) ==
  CHOOSE e \in EventIds : alert.alert_type = EVENT_NAME[e] \o "/" \o alert.event_type

ArbiterAlerts ==
  {Stamp(Alert(p, 0), e, "softDisable") :
     p \in {LOW, MID, HIGH}, e \in {stockFcw, preEnableStandstill, steerTempUnavailable}}

ResolvedLists ==
  {a \in UNION {[1..n -> ArbiterAlerts] : n \in 0..MaxAlerts} :
     \A i \in 1..(Len(a) - 1) : OriginId(a[i]) <= OriginId(a[i + 1])}

InitArbiter ==
  /\ events = <<>>
  /\ static_events = <<>>
  /\ event_counters = [k \in DOMAIN EVENTS0 |-> 0]
  /\ EVENTS = EVENTS0
  /\ last \in {[op |-> "resolved", ret |-> a] : a \in ResolvedLists}
  /\ nclears = 0
  /\ active_ticks = [k \in DOMAIN EVENTS0 |-> 0]

pickHighest ==
  /\ last.op = "resolved"
  /\ last' = [op |-> "pickHighest", alerts |-> last.ret, ret |-> PickHighest(last.ret)]
  /\ UNCHANGED <<events, static_events, event_counters, EVENTS, nclears, active_ticks>>

NextArbiter == pickHighest

SpecArbiter == InitArbiter /\ [][NextArbiter]_vars

(***************************************************************************)
(* The reads of one tick over every event id, stockFcw (whose EVENTS entry *)
(* is empty) included, and the round trip of the active list through       *)
(* to_msg and the add_from_msg of a newly constructed Events.              *)
(***************************************************************************)
\* event types asked of contains
ReadTypes == {"noEntry", "preEnable", "warning"}

\* event_types lists passed to create_alerts
ReadTypeLists == {<<"preEnable", "softDisable", "noEntry">>}

\* what happens to the flags of a record on the way: kept as sent, all cleared, all set
FlagChoices == {"sent", "none", "all"}

Reflag(event, choice) ==
  IF choice = "sent" THEN event
  ELSE CarEvent(event.name, IF choice = "all" THEN ET ELSE {})

\* other = Events(); other.add_from_msg(msg), msg being self.to_msg() with the
\* flags of its records changed; the state is that of the new object from here on
round_trip(choices) ==
  LET msg == [i \in DOMAIN ToMsg |-> Reflag(ToMsg[i], choices[i])]
  IN /\ events' = InsortAll(<<>>, msg, 1)
     /\ static_events' = <<>>
     /\ event_counters' = [k \in DOMAIN EVENTS |-> 0]
     /\ last' = [op |-> "round_trip", sent |-> events, msg |-> msg]
     /\ nclears' = 0
     /\ active_ticks' = [k \in DOMAIN EVENTS |-> 0]
     /\ UNCHANGED EVENTS

NextReads ==
  \/ \E e \in EventIds : add(e, FALSE)
  \/ \E et \in ReadTypes : contains(et)
  \/ \E ets \in ReadTypeLists, args \in CallbackArgs : create_alerts(ets, args)
  \/ to_msg
  \/ \E choices \in [DOMAIN events -> FlagChoices] : round_trip(choices)

SpecReads == Init /\ [][NextReads]_vars

(***************************************************************************)
(* One delayed event over more ticks: preEnableStandstill (creation delay  *)
(* of more than one tick) asserted or not in each tick.                    *)
(***************************************************************************)
\* number of clear() calls (ticks) of the runs with the delayed event
MaxDelayTicks == 4

DelayTypeLists == {<<"preEnable">>}

NextDelay ==
  \/ \E s \in BOOLEAN : add(preEnableStandstill, s)
  \/ clear_until(MaxDelayTicks)
  \/ \E ets \in DelayTypeLists : create_alerts(ets, <<>>)

SpecDelay == Init /\ [][NextDelay]_vars

(***************************************************************************)
(* The callbacks applied to a context: the services sm holds, the list     *)
(* fields of their messages empty or filled.                               *)
(***************************************************************************)
ModelV2Msgs == [velocity_x : {<<>>, <<3>>}, frameDropPerc : {0, 1}]

LiveCalibrationMsgs == [rpyCalib : {<<>>, <<0, 1, 2>>}]

DeviceStateMsgs == [memoryUsagePercent : {0, 90}]

Services == {"modelV2", "liveCalibration", "deviceState"}

ServiceMsgs(s) ==
  CASE s = "modelV2" -> ModelV2Msgs
    [] s = "liveCalibration" -> LiveCalibrationMsgs
    [] s = "deviceState" -> DeviceStateMsgs

\* every sm over a subset of the services
SubMasters ==
  UNION {{sm \in [held -> ModelV2Msgs \cup LiveCalibrationMsgs \cup DeviceStateMsgs] :
            \A s \in held : sm[s] \in ServiceMsgs(s)} : held \in SUBSET Services}

\* largest soft_disable_time handed to a callback
MaxSoftDisableTime == 3

SoftDisableCallbacks == {"soft_disable_alert", "user_soft_disable_alert"}

ContextCallbacks ==
  {"posenet_invalid_alert", "calibration_invalid_alert", "low_memory_alert",
   "modeld_lagging_alert"}

\* alert(*callback_args) for the callbacks that read the context
CallContextAlert(fn, a) ==
  IF Len(a) # 6 THEN Raise("TypeError")
  ELSE CASE fn = "posenet_invalid_alert" ->
              posenet_invalid_alert(a[1], a[2], a[3], a[4], a[5], a[6])
         [] fn = "calibration_invalid_alert" ->
              calibration_invalid_alert(a[1], a[2], a[3], a[4], a[5], a[6])
         [] fn = "low_memory_alert" ->
              low_memory_alert(a[1], a[2], a[3], a[4], a[5], a[6])
         [] fn = "modeld_lagging_alert" ->
              modeld_lagging_alert(a[1], a[2], a[3], a[4], a[5], a[6])
         [] fn = "soft_disable_alert" -> soft_disable_alert(a[5])
         [] fn = "user_soft_disable_alert" -> user_soft_disable_alert(a[5])

InitCallbacks ==
  /\ events = <<>>
  /\ static_events = <<>>
  /\ event_counters = [k \in DOMAIN EVENTS0 |-> 0]
  /\ EVENTS = EVENTS0
  /\ last \in {[op |-> "context", sm |-> sm, soft_disable_time |-> t] :
                 sm \in SubMasters, t \in 0..MaxSoftDisableTime}
  /\ nclears = 0
  /\ active_ticks = [k \in DOMAIN EVENTS0 |-> 0]

call_callback(fn) ==
  /\ last.op = "context"
  /\ last' = [op |-> "callback", fn |-> fn, sm |-> last.sm,
              soft_disable_time |-> last.soft_disable_time,
              ret |-> CallContextAlert(fn, <<"CP", [vEgo |-> 1], last.sm, TRUE,
                                            last.soft_disable_time, "toggles">>)]
  /\ UNCHANGED <<events, static_events, event_counters, EVENTS, nclears, active_ticks>>

NextCallbacks == \E fn \in ContextCallbacks \cup SoftDisableCallbacks : call_callback(fn)

SpecCallbacks == InitCallbacks /\ [][NextCallbacks]_vars

(***************************************************************************)
(* Alert.__gt__ on its own: an alert compared with an alert of any         *)
(* priority and creation delay, or with a value that is not an Alert.      *)
(***************************************************************************)
CompareAlerts == {Alert(p, d) : p \in LOWEST..HIGHEST, d \in {0, UnitsPerSecond}}

NonAlerts == {NoAlert, Callback("soft_disable_alert")}

InitCompare ==
  /\ events = <<>>
  /\ static_events = <<>>
  /\ event_counters = [k \in DOMAIN EVENTS0 |-> 0]
  /\ EVENTS = EVENTS0
  /\ last \in {[op |-> "operands", self |-> a, alert2 |-> b] :
                 a \in CompareAlerts, b \in CompareAlerts \cup NonAlerts}
  /\ nclears = 0
  /\ active_ticks = [k \in DOMAIN EVENTS0 |-> 0]

\* self > alert2
__gt__ ==
  /\ last.op = "operands"
  /\ last' = [op |-> "__gt__", self |-> last.self, alert2 |-> last.alert2,
              ret |-> Alert__gt__(last.self, last.alert2)]
  /\ UNCHANGED <<events, static_events, event_counters, EVENTS, nclears, active_ticks>>

NextCompare == __gt__

SpecCompare == InitCompare /\ [][NextCompare]_vars

(***************************************************************************)
(* Helpers of the properties.                                              *)
(***************************************************************************)
Range(a) == {a[i] : i \in DOMAIN a}

CeilDiv(a, b) == (a + b - 1) \div b

IsClearStep == nclears' = nclears + 1

\* the alert create_alerts materializes for (e, et): the catalog's Alert or the callback's
Materialized(e, et, callback_args) ==
  IF EVENTS[e][et].kind = "Alert" THEN EVENTS[e][et]
  ELSE CallAlert(EVENTS[e][et].fn, callback_args)

\* the last call was a create_alerts that returned its list
Returned == last.op = "create_alerts" /\ last.exc = "None"

\* the returned list holds an alert of the pair (e, et)
Surfaced(e, et) ==
  \E j \in DOMAIN last.ret : last.ret[j].alert_type = EVENT_NAME[e] \o "/" \o et

C2_ActiveSubsetOfCatalog ==
  /\ \A i \in DOMAIN events : events[i] \in DOMAIN EVENTS
  /\ \A i \in DOMAIN static_events : static_events[i] \in DOMAIN EVENTS

(***************************************************************************)
(* C3. add of an id with no EVENTS entry changes neither the active list,  *)
(* the static list nor the counters, and no later create_alerts of the     *)
(* tick fails on the id (KeyError).                                        *)
(***************************************************************************)
C3_UnknownAddIsNoOp ==
  [][/\ (last'.op = "add" /\ last'.event_name \notin DOMAIN EVENTS)
          => UNCHANGED <<events, static_events, event_counters>>
     /\ ~(last'.op = "create_alerts" /\ last'.exc = "KeyError")]_vars

(***************************************************************************)
(* C4. Immediately after clear() the active list equals the static list as *)
(* it was at the clear: every id that was active but not static is gone,   *)
(* every static id is present.                                             *)
(***************************************************************************)
C4_ClearInstallsStatic ==
  [][IsClearStep =>
       /\ events' = static_events
       /\ static_events' = static_events
       /\ \A x \in Range(events) \ Range(static_events) : ~In(x, events')
       /\ \A x \in Range(static_events) : In(x, events')]_vars

C4_Witness ==
  /\ last.op = "clear"
  /\ Len(events) >= 1
  /\ \E k \in DOMAIN event_counters : event_counters[k] >= 1 /\ ~In(k, events)

(***************************************************************************)
(* C5. Original statement: clear() on a set holding a static id S and a    *)
(* non-static id N yields a set holding only S; S's counter increases by   *)
(* 1 and N's counter resets to 0.                                          *)
(***************************************************************************)
C5_NonStaticCounterResets ==
  [][IsClearStep =>
       \A S, N \in DOMAIN event_counters :
         (Range(static_events) = {S} /\ In(N, events) /\ N # S)
           => /\ Range(events') = {S}
              /\ event_counters'[S] = event_counters[S] + 1
              /\ event_counters'[N] = 0]_vars

\* C5 as amended: clear() on a set holding a static id S (the only static id) and
\* a non-static id N, both catalog ids, yields a set holding only S; S's counter
\* and N's counter each increase by 1.
C5_ClearStaticAndNonStatic ==
  [][IsClearStep =>
       \A S, N \in DOMAIN event_counters :
         (Range(static_events) = {S} /\ In(N, events) /\ N # S)
           => /\ Range(events') = {S}
              /\ event_counters'[S] = event_counters[S] + 1
              /\ event_counters'[N] = event_counters[N] + 1]_vars

C5_Witness ==
  /\ last.op = "clear"
  /\ \E S, N \in DOMAIN event_counters :
       /\ N # S
       /\ Range(events) = {S}
       /\ Range(static_events) = {S}
       /\ event_counters[S] >= 1
       /\ event_counters[N] >= 1

(***************************************************************************)
(* C6. At every clear() each catalog id's new counter is its old counter   *)
(* plus 1 if the id was in the active list, and 0 otherwise; no other call *)
(* changes a counter (so within a tick the counters are those the last     *)
(* clear() left); an id that was not active in the prior tick has counter *)
(* 0.                                                                      *)
(***************************************************************************)
C6_CounterUpdate ==
  [][/\ IF IsClearStep
        THEN /\ DOMAIN event_counters' = DOMAIN EVENTS0
             /\ \A k \in DOMAIN EVENTS0 :
                  event_counters'[k] = IF In(k, events) THEN event_counters[k] + 1 ELSE 0
        ELSE event_counters' = event_counters
     \* an id that was not active in the prior tick has counter 0
     /\ \A k \in DOMAIN EVENTS0 : active_ticks'[k] = 0 => event_counters'[k] = 0]_vars

C6_Witness ==
  /\ last.op = "clear"
  /\ nclears = 2
  /\ event_counters[preEnableStandstill] = 2
  /\ event_counters[steerTempUnavailable] = 0
  /\ active_ticks[preEnableStandstill] = 2

(***************************************************************************)
(* C7. A create_alerts call that returns holds an alert of the pair (e, c) *)
(* if and only if e is in the active list, c is among the requested event  *)
(* types, EVENTS[e] has an entry for c, and DT_CTRL * (counter[e] + 1) >=  *)
(* the creation delay of the materialized alert.  With no active event the *)
(* list is empty.                                                          *)
(***************************************************************************)
C7_CreateAlertsGating ==
  Returned =>
    /\ \A e \in EventIds, c \in ET :
         Surfaced(e, c) <=>
           /\ In(e, events)
           /\ c \in Range(last.event_types)
           /\ e \in DOMAIN EVENTS
           /\ c \in DOMAIN EVENTS[e]
           /\ DT_CTRL * (event_counters[e] + 1)
                >= Materialized(e, c, last.callback_args).creation_delay
    /\ (events = <<>> => last.ret = <<>>)

C7_Witness ==
  /\ Returned
  /\ last.event_types = <<"noEntry", "preEnable">>
  /\ In(preEnableStandstill, events)
  /\ event_counters[preEnableStandstill] = 0
  /\ ~Surfaced(preEnableStandstill, "preEnable")
  /\ event_counters[steerTempUnavailable] = 0
  /\ Surfaced(steerTempUnavailable, "noEntry")

(***************************************************************************)
(* C8. For an event whose alert has creation delay d, the alert is absent  *)
(* from the returned list on every tick before the ceil(d / DT_CTRL)-th    *)
(* consecutive tick in which the event is active, and present on that tick *)
(* and on every later consecutive tick.                                    *)
(***************************************************************************)
C8_DelayTicks ==
  Returned =>
    \A e \in DOMAIN EVENTS :
      \A c \in DOMAIN EVENTS[e] \cap Range(last.event_types) :
        In(e, events) =>
          (Surfaced(e, c) <=>
             active_ticks[e] + 1
               >= CeilDiv(Materialized(e, c, last.callback_args).creation_delay, DT_CTRL))

C8_Witness ==
  /\ Returned
  /\ In(preEnableStandstill, events)
  /\ EVENTS[preEnableStandstill]["preEnable"].creation_delay > DT_CTRL
  /\ active_ticks[preEnableStandstill] + 1
       = CeilDiv(EVENTS[preEnableStandstill]["preEnable"].creation_delay, DT_CTRL)
  /\ Surfaced(preEnableStandstill, "preEnable")

(***************************************************************************)
(* C9. An id added with static=True stays in the static list and in the    *)
(* active list over every later call, clear() included, without being      *)
(* added again; its counter goes up by 1 at every clear() and changes at   *)
(* no other call, so a creation delay it has passed stays passed; contains *)
(* and a create_alerts that returns see it.                                *)
(***************************************************************************)
C9_StaticPersists ==
  [][\A x \in Range(static_events) :
       /\ In(x, static_events')
       /\ In(x, events')
       /\ x \in DOMAIN event_counters =>
            /\ event_counters'[x] = event_counters[x] + (IF IsClearStep THEN 1 ELSE 0)
            /\ \A c \in DOMAIN EVENTS[x] :
                 /\ (EVENTS[x][c].kind = "Alert" /\ DelayPassed(x, EVENTS[x][c]))
                      => DT_CTRL * (event_counters'[x] + 1) >= EVENTS'[x][c].creation_delay
                 /\ (last'.op = "contains" /\ last'.event_type = c) => last'.ret
                 /\ (/\ last'.op = "create_alerts"
                     /\ last'.exc = "None"
                     /\ c \in Range(last'.event_types)
                     /\ EVENTS[x][c].kind = "Alert"
                     /\ DelayPassed(x, EVENTS[x][c]))
                      => \E j \in DOMAIN last'.ret :
                           last'.ret[j].alert_type = EVENT_NAME[x] \o "/" \o c]_vars

C9_Witness ==
  /\ Returned
  /\ nclears = 2
  /\ static_events = <<preEnableStandstill>>
  /\ events = <<preEnableStandstill>>
  /\ event_counters[preEnableStandstill] = 2
  /\ Surfaced(preEnableStandstill, "preEnable")

(***************************************************************************)
(* C10. No error escapes create_alerts: when the callback of an active     *)
(* event fails, the call still returns, the failing pair is replaced by an *)
(* alert of priority HIGH or above, and the alerts of the other active     *)
(* events are returned.                                                    *)
(***************************************************************************)
C10_NoErrorEscapes ==
  last.op = "create_alerts" =>
    \A e \in DOMAIN EVENTS, c \in Range(last.event_types) :
      (/\ In(e, events)
       /\ c \in DOMAIN EVENTS[e]
       /\ EVENTS[e][c].kind = "callback"
       /\ CallAlert(EVENTS[e][c].fn, last.callback_args).kind = "raise")
        => /\ last.exc = "None"
           /\ \E j \in DOMAIN last.ret :
                /\ last.ret[j].alert_type = EVENT_NAME[e] \o "/" \o c
                /\ last.ret[j].priority >= HIGH
           /\ \A e2 \in DOMAIN EVENTS, c2 \in Range(last.event_types) :
                (/\ In(e2, events)
                 /\ c2 \in DOMAIN EVENTS[e2]
                 /\ EVENTS[e2][c2].kind = "Alert"
                 /\ DelayPassed(e2, EVENTS[e2][c2]))
                  => Surfaced(e2, c2)

(***************************************************************************)
(* C11. pickHighest over a non-empty list returns an alert of the list     *)
(* whose priority is the maximum of the list and, among the alerts of that *)
(* priority, the one of the lowest originating event id: the first of them *)
(* in the list, which is in ascending order of event id.                   *)
(***************************************************************************)
C11_PickHighest ==
  (last.op = "pickHighest" /\ last.alerts # <<>>) =>
    \E i \in DOMAIN last.alerts :
      /\ last.ret = last.alerts[i]
      /\ \A j \in DOMAIN last.alerts :
           /\ last.alerts[j].priority <= last.ret.priority
           /\ j < i => last.alerts[j].priority < last.ret.priority
           /\ last.alerts[j].priority = last.ret.priority
                => OriginId(last.ret) <= OriginId(last.alerts[j])

C11_Witness ==
  /\ last.op = "pickHighest"
  /\ Len(last.alerts) = 3
  /\ last.alerts[1].priority = LOW
  /\ last.alerts[2].priority = HIGH
  /\ last.alerts[3].priority = HIGH
  /\ OriginId(last.alerts[2]) < OriginId(last.alerts[3])
  /\ last.ret = last.alerts[2]

(***************************************************************************)
(* C12. contains(event_type) returns true if and only if at least one id   *)
(* of the active list has an entry for that event type in EVENTS: false    *)
(* for an empty list, false when every active id has an empty mapping, and *)
(* true for an entry whose creation delay has not passed.                  *)
(***************************************************************************)
C12_Contains ==
  last.op = "contains" =>
    /\ last.ret <=> \E e \in Range(events) :
                      e \in DOMAIN EVENTS /\ last.event_type \in DOMAIN EVENTS[e]
    /\ events = <<>> => ~last.ret
    /\ (\A e \in Range(events) : e \in DOMAIN EVENTS => DOMAIN EVENTS[e] = {})
         => ~last.ret
    /\ (\E e \in Range(events) :
          /\ e \in DOMAIN EVENTS
          /\ last.event_type \in DOMAIN EVENTS[e]
          /\ EVENTS[e][last.event_type].kind = "Alert"
          /\ ~DelayPassed(e, EVENTS[e][last.event_type]))
         => last.ret

C12_Witness ==
  /\ last.op = "contains"
  /\ last.event_type = "preEnable"
  /\ events = <<stockFcw, preEnableStandstill>>
  /\ ~DelayPassed(preEnableStandstill, EVENTS[preEnableStandstill]["preEnable"])
  /\ last.ret

(***************************************************************************)
(* C13. Round trip: the records to_msg gives for the active list, fed to   *)
(* add_from_msg of a new Events, give an active list with the same ids     *)
(* (each as many times as in the original), whatever the flags of the      *)
(* records were changed to on the way.                                     *)
(***************************************************************************)
C13_RoundTrip ==
  last.op = "round_trip" =>
    /\ events = last.sent
    /\ \A e \in EventIds : Count(events, e) = Count(last.sent, e)

C13_Witness ==
  /\ last.op = "round_trip"
  /\ last.sent = <<stockFcw, steerTempUnavailable>>
  /\ events = last.sent
  /\ last.msg[1].flags["warning"]
  /\ ~last.msg[2].flags["noEntry"]

C16_GapResetsDelay ==
  [][\A e \in DOMAIN EVENTS0 : \A c \in DOMAIN EVENTS0[e] :
       (EVENTS0[e][c].kind = "Alert" /\ EVENTS0[e][c].creation_delay > DT_CTRL) =>
         /\ (IsClearStep /\ ~In(e, events)) => event_counters'[e] = 0
         /\ (/\ last'.op = "create_alerts"
             /\ last'.exc = "None"
             /\ c \in Range(last'.event_types)
             /\ In(e, events))
              => ((\E j \in DOMAIN last'.ret :
                     last'.ret[j].alert_type = EVENT_NAME[e] \o "/" \o c)
                  <=> active_ticks[e] + 1 >= CeilDiv(EVENTS0[e][c].creation_delay, DT_CTRL))]_vars

C16_Witness ==
  /\ Returned
  /\ nclears = 3
  /\ In(preEnableStandstill, events)
  /\ ~In(preEnableStandstill, static_events)
  /\ EVENTS[preEnableStandstill]["preEnable"].alert_type = "preEnableStandstill/preEnable"
  /\ event_counters[preEnableStandstill] = 0
  /\ ~Surfaced(preEnableStandstill, "preEnable")

(***************************************************************************)
(* C17. create_alerts, contains, to_msg, names and len leave the active    *)
(* list, the static list and every counter unchanged, so all the reads     *)
(* between the last add and the clear see the same active list; names and  *)
(* len return that list and its length.                                    *)
(***************************************************************************)
C17_ReadsLeaveState ==
  [][last'.op \in {"create_alerts", "contains", "to_msg", "names", "__len__"} =>
       /\ UNCHANGED <<events, static_events, event_counters>>
       /\ last'.op = "names" => last'.ret = events
       /\ last'.op = "__len__" => last'.ret = Len(events)]_vars

C17_Witness ==
  /\ last.op = "__len__"
  /\ last.ret = 2
  /\ nclears = 1
  /\ events = <<preEnableStandstill, steerTempUnavailable>>
  /\ static_events = <<preEnableStandstill>>
  /\ event_counters[preEnableStandstill] = 1
  /\ EVENTS[steerTempUnavailable]["noEntry"].alert_type = "steerTempUnavailable/noEntry"

(***************************************************************************)
(* C18. EVENTS is never mutated after construction: no sequence of add,    *)
(* create_alerts, contains, to_msg, add_from_msg and clear changes a       *)
(* catalog entry, the fields of the Alert objects stored in it included.   *)
(***************************************************************************)
C18_CatalogNeverMutated == EVENTS = EVENTS0

(***************************************************************************)
(* C19. Every alert a create_alerts call returns is the alert materialized *)
(* for a pair (active event, requested event type) that passes the gate,   *)
(* with alert_type "<event>/<event type>" and event_type the event type,   *)
(* whether it is an Alert of the catalog or one a callback made; and the   *)
(* call leaves the fields of an alert that is gated out as they were.      *)
(***************************************************************************)
C19_Provenance ==
  [][(last'.op = "create_alerts" /\ last'.exc = "None") =>
       /\ \A j \in DOMAIN last'.ret :
            \E e \in Range(events) \cap DOMAIN EVENTS :
              \E c \in Range(last'.event_types) \cap DOMAIN EVENTS[e] :
                LET alert == Materialized(e, c, last'.callback_args)
                IN /\ DelayPassed(e, alert)
                   /\ last'.ret[j].alert_type = EVENT_NAME[e] \o "/" \o c
                   /\ last'.ret[j].event_type = c
                   /\ last'.ret[j].priority = alert.priority
                   /\ last'.ret[j].creation_delay = alert.creation_delay
       /\ \A e \in DOMAIN EVENTS : \A c \in DOMAIN EVENTS[e] :
            (EVENTS[e][c].kind = "Alert" /\ ~DelayPassed(e, EVENTS[e][c]))
              => EVENTS'[e][c] = EVENTS[e][c]]_vars

C19_Witness ==
  /\ Returned
  /\ events = <<preEnableStandstill, steerTempUnavailable>>
  /\ last.event_types = <<"preEnable", "softDisable", "noEntry">>
  /\ Len(last.ret) = 2
  /\ last.ret[1].alert_type = "steerTempUnavailable/softDisable"
  /\ last.ret[1].event_type = "softDisable"
  /\ last.ret[2].alert_type = "steerTempUnavailable/noEntry"
  /\ last.ret[2].event_type = "noEntry"
  /\ EVENTS[preEnableStandstill]["preEnable"].alert_type = ""
  /\ EVENTS[preEnableStandstill]["preEnable"].event_type = "None"

\* the position of an event type in the requested list
TypePos(c) == CHOOSE i \in DOMAIN last.event_types : last.event_types[i] = c

AlertTypesOf(e) ==
  LET Keep(c) == /\ c \in DOMAIN EVENTS[e]
                 /\ DelayPassed(e, Materialized(e, c, last.callback_args))
      kept == SelectSeq(last.event_types, Keep)
  IN [k \in DOMAIN kept |-> EVENT_NAME[e] \o "/" \o kept[k]]

RECURSIVE AlertTypesFrom(_)
AlertTypesFrom(i) ==
  IF i > Len(events) THEN <<>>
  ELSE AlertTypesOf(events[i]) \o AlertTypesFrom(i + 1)

C21_AddFromMsgNonStatic ==
  [][/\ last'.op = "add_from_msg" =>
          /\ UNCHANGED <<static_events, event_counters>>
          /\ Len(events') > Len(events)
          /\ \A x \in Range(events) : In(x, events')
     /\ IsClearStep =>
          \A x \in Range(events) \ Range(static_events) : ~In(x, events')]_vars

C21_Witness ==
  /\ last.op = "add_from_msg"
  /\ nclears = 1
  /\ static_events = <<preEnableStandstill>>
  /\ events = <<preEnableStandstill, steerTempUnavailable>>
  /\ event_counters[preEnableStandstill] = 1
  /\ event_counters[steerTempUnavailable] = 0

(***************************************************************************)
(* C22. A callback whose context lacks what it reads (a service sm does    *)
(* not hold, an empty list field) still returns an Alert, with a sentinel  *)
(* (math.nan) in place of the value; it never raises.                      *)
(***************************************************************************)
C22_CallbackNeverRaises ==
  last.op = "callback" =>
    /\ last.ret.kind = "Alert"
    /\ last.ret.priority \in LOWEST..HIGHEST
    /\ (/\ last.fn = "posenet_invalid_alert"
        /\ "modelV2" \in DOMAIN last.sm
        /\ last.sm["modelV2"].velocity_x = <<>>)
         => last.ret.alert_text_2 = <<NaN>>
    /\ (/\ last.fn = "calibration_invalid_alert"
        /\ "liveCalibration" \in DOMAIN last.sm
        /\ last.sm["liveCalibration"].rpyCalib = <<>>)
         => last.ret.alert_text_2 = <<NaN, NaN>>

(***************************************************************************)
(* C23. soft_disable_alert and user_soft_disable_alert escalate: called    *)
(* with soft_disable_time below the number of ticks in 0.5 s,              *)
(* int(0.5 / DT_CTRL), they return an immediate-disable alert of priority  *)
(* HIGHEST, at or above it a soft-disable alert of priority MID; so the    *)
(* priority never decreases as soft_disable_time counts down.              *)
(***************************************************************************)
C23_SoftDisableEscalates ==
  (last.op = "callback" /\ last.fn \in SoftDisableCallbacks) =>
    LET HalfSecondTicks == (UnitsPerSecond \div 2) \div DT_CTRL
        At(t) == CallContextAlert(last.fn, <<"CP", [vEgo |-> 1], last.sm, TRUE, t, "toggles">>)
    IN /\ last.soft_disable_time < HalfSecondTicks
            => (last.ret = ImmediateDisableAlert /\ last.ret.priority = HIGHEST)
       /\ last.soft_disable_time >= HalfSecondTicks
            => (last.ret = SoftDisableAlert /\ last.ret.priority = MID)
       /\ \A t \in 0..last.soft_disable_time : At(t).priority >= last.ret.priority

C23_Witness ==
  /\ last.op = "callback"
  /\ last.fn = "user_soft_disable_alert"
  /\ last.soft_disable_time = (UnitsPerSecond \div 2) \div DT_CTRL
  /\ last.ret.priority = MID
  /\ soft_disable_alert(last.soft_disable_time - 1).priority = HIGHEST

(***************************************************************************)
(* C24. The static list only grows: no operation removes an id from        *)
(* static_events, an add with static=True adds one entry to it, and every  *)
(* clear() leaves each of its ids in the active list.                      *)
(***************************************************************************)
C24_StaticOnlyGrows ==
  [][/\ \A x \in EventIds : Count(static_events', x) >= Count(static_events, x)
     /\ (last'.op = "add" /\ last'.static) =>
           Count(static_events', last'.event_name) = Count(static_events, last'.event_name) + 1
     /\ IsClearStep =>
           \A x \in EventIds : In(x, static_events) => Count(events', x) = Count(static_events', x)]_vars

C24_Witness ==
  /\ last.op = "clear"
  /\ nclears = 2
  /\ static_events = <<preEnableStandstill, steerTempUnavailable>>
  /\ events = static_events
  /\ event_counters[preEnableStandstill] = 2
  /\ event_counters[steerTempUnavailable] = 1

(***************************************************************************)
(* C25. The active list installed by clear() is a copy of the static list, *)
(* not the list itself: after a clear, an add without static (or an        *)
(* add_from_msg) changes only the active list and leaves the static list   *)
(* as it was, and the following clear() installs the static list without   *)
(* the ids added that way.                                                 *)
(***************************************************************************)
C25_ClearInstallsCopy ==
  [][/\ (/\ nclears >= 1
         /\ \/ last'.op = "add_from_msg"
            \/ last'.op = "add" /\ ~last'.static)
          => /\ static_events' = static_events
             /\ Len(events') > Len(events)
             /\ Len(events') > Len(static_events')
     /\ (IsClearStep /\ nclears >= 1)
          => /\ Len(events') = Len(static_events)
             /\ \A x \in Range(events) :
                  Count(events, x) > Count(static_events, x)
                    => Count(events', x) < Count(events, x)]_vars

C25_Witness ==
  /\ last.op = "clear"
  /\ nclears = 2
  /\ static_events = <<preEnableStandstill>>
  /\ events = <<preEnableStandstill>>
  /\ event_counters[preEnableStandstill] = 2
  /\ event_counters[steerTempUnavailable] = 1
  /\ active_ticks[steerTempUnavailable] = 1

(***************************************************************************)
(* C26. After any sequence of add, add_from_msg and clear both the active  *)
(* list and the static list are in non-decreasing id order, whatever the   *)
(* order of insertion and whether or not ids repeat.                       *)
(***************************************************************************)
C26_BothListsSorted ==
  /\ \A i, j \in DOMAIN events : i < j => events[i] <= events[j]
  /\ \A i, j \in DOMAIN static_events : i < j => static_events[i] <= static_events[j]

\* the smaller id was added last, static, after the larger one
C26_Witness ==
  /\ last.op = "add"
  /\ last.static
  /\ Len(static_events) = 2
  /\ static_events[1] < static_events[2]
  /\ last.event_name = static_events[1]
  /\ events = static_events

(***************************************************************************)
(* C27. add commutes: for any two calls add(a, sa) and add(b, sb) applied  *)
(* to the same state, either order of the two calls yields the same active *)
(* list, the same static list and the same counters.                       *)
(***************************************************************************)
C27_AddCommutes ==
  LET \* Events.add on the object's fields: insort into static_events if static,
      \* insort into events, event_counters left alone
      Add(s, event_name, static) ==
        [static_events |-> IF static THEN insort(s.static_events, event_name)
                           ELSE s.static_events,
         events |-> insort(s.events, event_name),
         event_counters |-> s.event_counters]
      self == [static_events |-> static_events, events |-> events,
               event_counters |-> event_counters]
  IN \A a, b \in EventIds : \A sa, sb \in BOOLEAN :
       Add(Add(self, a, sa), b, sb) = Add(Add(self, b, sb), a, sa)

\* the larger id was added first, static; the smaller one after it, not static
C27_Witness ==
  /\ last.op = "add"
  /\ ~last.static
  /\ last.event_name = preEnableStandstill
  /\ events = <<preEnableStandstill, steerTempUnavailable>>
  /\ static_events = <<steerTempUnavailable>>
  /\ nclears = 0

(***************************************************************************)
(* C28. The counter table always has exactly the catalog ids as keys: at   *)
(* construction every counter is 0 and the active list and the static list *)
(* are empty; clear() never adds or removes a key; every counter is always *)
(* >= 0 and never exceeds the number of clear() calls made so far.         *)
(***************************************************************************)
C28_CounterTable ==
  /\ DOMAIN event_counters = DOMAIN EVENTS
  /\ DOMAIN event_counters = DOMAIN EVENTS0
  /\ \A k \in DOMAIN event_counters :
       event_counters[k] >= 0 /\ event_counters[k] <= nclears
  /\ last.op = "__init__" =>
       /\ \A k \in DOMAIN event_counters : event_counters[k] = 0
       /\ events = <<>>
       /\ static_events = <<>>

\* one counter is at its upper bound, the others at the lower one
C28_Witness ==
  /\ last.op = "clear"
  /\ nclears = 2
  /\ events = <<>>
  /\ event_counters[steerTempUnavailable] = nclears
  /\ \A k \in DOMAIN event_counters \ {steerTempUnavailable} : event_counters[k] = 0

\* the number of alerts of the pair (e, et) in the returned list
AlertsOf(e, et) ==
  Cardinality({j \in DOMAIN last.ret : last.ret[j].alert_type = EVENT_NAME[e] \o "/" \o et})

C30_StrictOrderOnPriority ==
  last.op = "__gt__" =>
    LET a == last.self
        b == last.alert2
    IN /\ b \in CompareAlerts =>
            /\ last.ret <=> a.priority > b.priority
            /\ last.ret => ~Alert__gt__(b, a)
            /\ a.priority = b.priority => (~last.ret /\ ~Alert__gt__(b, a))
       /\ b \in NonAlerts => ~last.ret
       /\ ~Alert__gt__(a, a)

\* equal priorities, different creation delays: not greater
C30_Witness ==
  /\ last.op = "__gt__"
  /\ last.alert2 \in CompareAlerts
  /\ last.self.priority = last.alert2.priority
  /\ last.self.creation_delay > last.alert2.creation_delay
  /\ ~last.ret

=============================================================================
